---- MODULE Spec2Model ----
(***************************************************************************)
(* paroli-daemon: the request reader, the job queue, the worker pool, the  *)
(* per-request synthesis pipeline and the shutdown sequence of main(), as  *)
(* a state machine.  One action per step of the reader/main thread, of a   *)
(* worker thread, and of the signal handler.  The synthesis engine, the    *)
(* audio device and the output file are the environment: their outcomes    *)
(* are drawn from small sets at the step that calls them.                  *)
(***************************************************************************)
EXTENDS Integers, Sequences, FiniteSets, TLC

\* ---------------------------------------------------------------- bounds
\* number of lines stdin delivers before it can only report end-of-stream
MaxLines == 2
\* largest --max-concurrency value the command line is given
MaxConcurrency == 2
\* number of lines stdin delivers in the runs that compare encodings
CodecLines == 1

\* ------------------------------------------------------- program constants
\* the native sample rate of the voice the dispatcher runs load
\* (voice_.synthesisConfig.sampleRate)
NativeSr == 22050
\* default output rate of an opus request
OpusDefaultSr == 24000
\* the sample rates a model config file or a request names
SampleRates == {16000, NativeSr, OpusDefaultSr}
\* --volume FLOAT, in quarters: 0 is 0.0 and VolumeUnit is 1.0; the quarters
\* are exact as float, and so is their product with a 16-bit sample
VolumeUnit == 4
VolumeArgs == -1..(VolumeUnit + 1)
\* int16_t
Int16Min == -32768
Int16Max == 32767

VARIABLES
    cfg,            \* RunConfig, read-only after startup
    mainPc,         \* position of the main (reader) thread
    joined,         \* number of workers the join loop has joined
    line,           \* the line getline() returned
    linesRead,      \* lines delivered by stdin so far
    req,            \* the Request r the reader has built
    gShuttingDown,  \* atomic<bool> gShuttingDown
    nextId,         \* atomic<size_t> nextId
    q,              \* queue<WorkItem> q
    qMutex,         \* owner of qMutex: 0 free, -1 main, w worker w
    qCv,            \* threads blocked inside qCv.wait
    wpc,            \* vector<thread> workers: position of each worker
    item,           \* WorkItem item of each worker
    dst,            \* ostream *dst of each worker's pipeline
    todo,           \* the writes each worker's pipeline has still to make
    gSynth,         \* the ParoliSynthesizer behind gSynth
    cerr,           \* lines written to the error channel
    cout,           \* writes made to standard output
    outFile,        \* content of the --output file
    played,         \* requests pushed to the audio device
    exitCode,       \* return value of main, -1 while running
    pushed,         \* history: the requests pushed onto q, in order
    dequeued,       \* history: id of every dequeue, in order
    results,        \* history: outcome of every pipeline run
    sigAt           \* history: Len(pushed) when the signal arrived, -1 if none

vars == <<cfg, mainPc, joined, line, linesRead, req, gShuttingDown, nextId, q,
          qMutex, qCv, wpc, item, dst, todo, gSynth, cerr, cout, outFile, played,
          exitCode, pushed, dequeued, results, sigAt>>

\* ------------------------------------------------------------ input lines
NoRequest == [id |-> 0, text |-> "", format |-> "", sampleRate |-> <<>>]

JsonObject(hasText, text, hasFormat, format, srKind, srVal) ==
    [kind |-> "object", hasText |-> hasText, text |-> text,
     hasFormat |-> hasFormat, format |-> format, srKind |-> srKind, srVal |-> srVal]

EmptyLine == [kind |-> "empty", hasText |-> FALSE, text |-> "",
              hasFormat |-> FALSE, format |-> "", srKind |-> "absent", srVal |-> 0]

\* a line that is not JSON, such as {"text":}
MalformedJson == [kind |-> "garbage", hasText |-> FALSE, text |-> "",
                  hasFormat |-> FALSE, format |-> "", srKind |-> "absent", srVal |-> 0]

\* texts: "Hi" is synthesized in two chunks, "" yields no audio, the
\* engine throws on BadText after producing one chunk, and PauseText is
\* synthesized in three chunks of which the second is empty
BadText == "\\xff"
PauseText == "Hi. ... Yo."
SilentText == " "

PcmLine == JsonObject(TRUE, "Hi", TRUE, "pcm", "absent", 0)
WavLine == JsonObject(TRUE, "Hi", FALSE, "", "null", 0)
BadTextLine == JsonObject(TRUE, BadText, FALSE, "", "absent", 0)

\* the lines stdin delivers in the runs of the dispatcher
DispatchLines == { PcmLine, BadTextLine, MalformedJson }

\* the lines stdin delivers in the runs that follow single requests
PipelineLines ==
    { EmptyLine,
      MalformedJson,
      JsonObject(FALSE, "", TRUE, "pcm", "absent", 0),
      PcmLine,
      WavLine,
      BadTextLine,
      JsonObject(TRUE, "Hi", TRUE, "mp3", "absent", 0),
      JsonObject(TRUE, "Hi", TRUE, "opus", "int", 16000),
      JsonObject(TRUE, "", TRUE, "pcm", "absent", 0) }

\* the lines stdin delivers in the runs that compare encodings: every format,
\* with sample_rate absent or one of the rates
CodecLinesDefaultRate ==
    { JsonObject(TRUE, t, TRUE, f, "absent", 0) :
        t \in {"Hi", PauseText, BadText}, f \in {"pcm", "wav", "opus"} }
CodecLinesWithRate ==
    { JsonObject(TRUE, t, TRUE, f, "int", sr) :
        t \in {"Hi", PauseText}, f \in {"pcm", "wav", "opus"}, sr \in SampleRates }
CodecInput ==
    CodecLinesDefaultRate \cup CodecLinesWithRate
        \cup { JsonObject(TRUE, SilentText, TRUE, "pcm", "absent", 0) }

\* the try block of the reader loop up to the construction of r:
\* json::parse, the text check, the format default, the optional sample_rate
ParseLine(l) ==
    IF l.kind = "garbage"
    THEN [ok |-> FALSE, err |-> "parse error", r |-> NoRequest]
    ELSE IF ~l.hasText
    THEN [ok |-> FALSE, err |-> "Missing text", r |-> NoRequest]
    ELSE [ok |-> TRUE, err |-> "",
          r |-> [id |-> 0,
                 text |-> l.text,
                 format |-> IF l.hasFormat THEN l.format ELSE "wav",
                 sampleRate |-> IF l.srKind = "int" THEN <<l.srVal>> ELSE <<>>]]

\* printError: one JSON object {"error": msg} and a newline
ErrorLine(msg) == [json |-> TRUE, text |-> msg]

\* cerr << "Failed to speak: " << getLastError() << endl
SpeakFailureLine(msg) == [json |-> FALSE, text |-> msg]

\* ------------------------------------------------------------------ state
\* modelSr is the sample rate the model config file gives the voice
AllConfigs ==
    [maxConcurrency : 1..MaxConcurrency, stream : BOOLEAN,
     playAudio : BOOLEAN, outputFile : BOOLEAN,
     volume : VolumeArgs, modelSr : SampleRates]

\* the command lines of the dispatcher runs: any pool size, standard output;
\* --stream with one worker or two, whose frames can interleave; --play with
\* one worker only, since speak() reads and writes lastError_ without a lock
DispatchConfigs ==
    { c \in AllConfigs :
        /\ ~c.outputFile
        /\ c.playAudio => (c.maxConcurrency = 1 /\ ~c.stream)
        /\ c.stream => c.maxConcurrency <= 2
        /\ c.volume = VolumeUnit /\ c.modelSr = NativeSr }

\* the command lines of the single-request runs: one worker, any other
\* option; --volume absent, or given out of range
PipelineConfigs ==
    { c \in AllConfigs :
        /\ c.maxConcurrency = 1 /\ c.modelSr = NativeSr
        /\ c.playAudio => ~c.stream
        /\ c.volume \in {-1, VolumeUnit, VolumeUnit + 1} }

\* the command lines of the runs that compare encodings: one worker, standard
\* output, any voice rate; with --play any volume of the range
CodecConfigs ==
    { c \in AllConfigs :
        /\ c.maxConcurrency = 1 /\ ~c.outputFile
        /\ IF c.playAudio
           THEN ~c.stream /\ c.modelSr = NativeSr /\ c.volume \in 0..VolumeUnit
           ELSE c.volume = VolumeUnit }

InitFor(configs) ==
    /\ cfg \in configs
    /\ mainPc = "startup"
    /\ joined = 0
    /\ line = EmptyLine
    /\ linesRead = 0
    /\ req = NoRequest
    /\ gShuttingDown = FALSE
    /\ nextId = 0
    /\ q = <<>>
    /\ qMutex = 0
    /\ qCv = {}
    /\ wpc = <<>>
    /\ item = <<>>
    /\ dst = <<>>
    /\ todo = <<>>
    /\ gSynth = [alive |-> FALSE, initialized_ |-> FALSE, lastError_ |-> "",
                 sampleRate |-> 0, volume_ |-> VolumeUnit]
    /\ cerr = <<>>
    /\ cout = <<>>
    /\ outFile = <<>>
    /\ played = {}
    /\ exitCode = -1
    /\ pushed = <<>>
    /\ dequeued = <<>>
    /\ results = {}
    /\ sigAt = -1

Workers == DOMAIN wpc

readerVars == <<line, linesRead, req, nextId>>
queueVars == <<q, qMutex, qCv>>
workerVars == <<wpc, item, dst, todo>>
sinkVars == <<cout, outFile, played>>
histVars == <<pushed, dequeued, results, sigAt>>

\* ------------------------------------------------------ main: startup
\* void setVolume(float volume) { volume_ = std::clamp(volume, 0.0f, 1.0f); }
SetVolume(v) == IF v < 0 THEN 0 ELSE IF v > VolumeUnit THEN VolumeUnit ELSE v

\* what the file system holds for the paths of the command line, and
\* whether -c/--config was given at all
StartupFiles ==
    [encoder : BOOLEAN, decoder : BOOLEAN, configGiven : BOOLEAN, config : BOOLEAN]

\* if (cfg.volume < 0.0f || cfg.volume > 1.0f) throw
VolumeUnchecked(v) == TRUE
VolumeInRange(v) == 0 <= v /\ v <= VolumeUnit

\* parseArgs: the message of the exception it throws, "" when it returns
ParseArgsError(c, files) ==
    IF ~VolumeInRange(c.volume) THEN "Volume must be between 0.0 and 1.0"
    ELSE IF ~files.encoder THEN "Encoder model file doesn't exist"
    ELSE IF ~files.decoder THEN "Decoder model file doesn't exist"
    ELSE IF ~files.configGiven THEN "Model config file must be provided"
    ELSE IF ~files.config THEN "Model config doesn't exist"
    ELSE ""

\* setupPiper: the constructor throws what loadVoice or piper::initialize
\* throws, or gSynth holds an initialized synthesizer with the volume set
SetupPiperError(engineOk) == IF engineOk THEN "" ELSE "failed to load voice"

\* parseArgs and setupPiper inside main's try block: either both return and
\* gSynth holds an initialized synthesizer, or one throws, the error is
\* printed and main returns 1
Startup ==
    /\ mainPc = "startup"
    /\ \E files \in StartupFiles, engineOk \in BOOLEAN :
         LET err == IF ParseArgsError(cfg, files) # ""
                    THEN ParseArgsError(cfg, files)
                    ELSE SetupPiperError(engineOk)
         IN
         IF err = ""
         THEN /\ gSynth' = [alive |-> TRUE, initialized_ |-> TRUE, lastError_ |-> "",
                            sampleRate |-> cfg.modelSr, volume_ |-> SetVolume(cfg.volume)]
              /\ mainPc' = "spawn"
              /\ UNCHANGED <<cerr, exitCode>>
         ELSE /\ cerr' = Append(cerr, ErrorLine(err))
              /\ mainPc' = "done"
              /\ exitCode' = 1
              /\ UNCHANGED gSynth
    /\ UNCHANGED <<cfg, joined, gShuttingDown, readerVars, queueVars, workerVars,
                   sinkVars, histVars>>

\* the number of threads the spawn loop creates: for (i = 0; i < n; i++)
PoolSizeOffByOne(n) == n + 1
PoolSize(n) == n

\* workers.emplace_back(...): one more worker thread, at the top of its loop
SpawnWorker ==
    /\ mainPc = "spawn"
    /\ Len(wpc) < PoolSize(cfg.maxConcurrency)
    /\ wpc' = Append(wpc, "lock")
    /\ item' = Append(item, NoRequest)
    /\ dst' = Append(dst, "cout")
    /\ todo' = Append(todo, <<>>)
    /\ mainPc' = IF Len(wpc) + 1 < PoolSize(cfg.maxConcurrency) THEN "spawn" ELSE "loop"
    /\ UNCHANGED <<cfg, joined, gShuttingDown, readerVars, queueVars, gSynth, cerr,
                   exitCode, sinkVars, histVars>>

\* ------------------------------------------------------ signal handler
\* the value of gShuttingDown.store(true), in the handler and in main
ToggledFlag == ~gShuttingDown
StoredFlag == TRUE

\* handler = [](int) { gShuttingDown.store(true); }  -- it notifies nobody
Signal ==
    /\ mainPc \notin {"startup", "done"}
    /\ sigAt = -1
    /\ gShuttingDown' = StoredFlag
    /\ sigAt' = Len(pushed)
    /\ UNCHANGED <<cfg, mainPc, joined, readerVars, queueVars, workerVars, gSynth,
                   cerr, exitCode, sinkVars, pushed, dequeued, results>>

\* ------------------------------------------------------ main: reader loop
\* while (!gShuttingDown.load() && ...): the flag half of the loop condition
ReaderLoopCond ==
    /\ mainPc = "loop"
    /\ mainPc' = IF gShuttingDown THEN "store" ELSE "getline"
    /\ UNCHANGED <<cfg, joined, gShuttingDown, readerVars, queueVars, workerVars,
                   gSynth, cerr, exitCode, sinkVars, histVars>>

\* getline(cin, line) returns a line
GetLine(lines, maxLines) ==
    /\ mainPc = "getline"
    /\ linesRead < maxLines
    /\ \E l \in lines : line' = l
    /\ linesRead' = linesRead + 1
    /\ mainPc' = "parse"
    /\ UNCHANGED <<cfg, joined, gShuttingDown, req, nextId, queueVars, workerVars,
                   gSynth, cerr, exitCode, sinkVars, histVars>>

\* getline(cin, line) reports end-of-stream: the loop ends
GetLineEof ==
    /\ mainPc = "getline"
    /\ mainPc' = "store"
    /\ UNCHANGED <<cfg, joined, gShuttingDown, readerVars, queueVars, workerVars,
                   gSynth, cerr, exitCode, sinkVars, histVars>>

\* nextId.fetch_add(1) comes after every statement of the try block that can
\* throw, so only a line that parsed takes an identifier
NextIdEager(p, n) == n + 1
NextIdReused(p, n) == n
NextIdAfter(p, n) == IF p.ok THEN n + 1 ELSE n

\* the body of the loop up to r.id = nextId.fetch_add(1), and the catch
ParseStep ==
    /\ mainPc = "parse"
    /\ IF line.kind = "empty"
       THEN /\ mainPc' = "loop"
            /\ UNCHANGED <<req, nextId, cerr>>
       ELSE LET p == ParseLine(line) IN
            /\ nextId' = NextIdAfter(p, nextId)
            /\ IF p.ok
               THEN /\ req' = [p.r EXCEPT !.id = nextId]
                    /\ mainPc' = "check"
                    /\ UNCHANGED cerr
               ELSE /\ cerr' = Append(cerr, ErrorLine(p.err))
                    /\ mainPc' = "loop"
                    /\ UNCHANGED req
    /\ UNCHANGED <<cfg, joined, gShuttingDown, line, linesRead, queueVars, workerVars,
                   gSynth, exitCode, sinkVars, histVars>>

\* if (gShuttingDown.load()) break;
ShutdownCheck ==
    /\ mainPc = "check"
    /\ mainPc' = IF gShuttingDown THEN "store" ELSE "push"
    /\ UNCHANGED <<cfg, joined, gShuttingDown, readerVars, queueVars, workerVars,
                   gSynth, cerr, exitCode, sinkVars, histVars>>

\* { unique_lock lk(qMutex); q.push(WorkItem{r}); }
Push ==
    /\ mainPc = "push"
    /\ qMutex = 0
    /\ q' = Append(q, [req |-> req])
    /\ pushed' = Append(pushed, req)
    /\ mainPc' = "notify"
    /\ UNCHANGED <<cfg, joined, gShuttingDown, readerVars, qMutex, qCv, workerVars,
                   gSynth, cerr, exitCode, sinkVars, dequeued, results, sigAt>>

\* qCv.notify_one(): one thread blocked in the wait, if there is one, is released
NotifyOne ==
    /\ mainPc = "notify"
    /\ IF qCv = {} THEN UNCHANGED qCv ELSE \E w \in qCv : qCv' = qCv \ {w}
    /\ mainPc' = "loop"
    /\ UNCHANGED <<cfg, joined, gShuttingDown, readerVars, q, qMutex, workerVars,
                   gSynth, cerr, exitCode, sinkVars, histVars>>

\* ------------------------------------------------------ main: shutdown
\* gShuttingDown.store(true), made without holding qMutex
StoreShutdown ==
    /\ mainPc = "store"
    /\ gShuttingDown' = StoredFlag
    /\ mainPc' = "notify_all"
    /\ UNCHANGED <<cfg, joined, readerVars, queueVars, workerVars, gSynth, cerr,
                   exitCode, sinkVars, histVars>>

\* qCv.notify_all(): every thread blocked in the wait at this moment is released
NotifyAll ==
    /\ mainPc = "notify_all"
    /\ qCv' = {}
    /\ mainPc' = "join"
    /\ UNCHANGED <<cfg, joined, gShuttingDown, readerVars, q, qMutex, workerVars,
                   gSynth, cerr, exitCode, sinkVars, histVars>>

\* t.join() returns once thread t has returned from its lambda
JoinNoWait(t) == TRUE
JoinReturns(t) == wpc[t] = "exited"

\* for (auto &t : workers) t.join();
JoinWorker ==
    /\ mainPc = "join"
    /\ joined < Len(wpc)
    /\ JoinReturns(joined + 1)
    /\ joined' = joined + 1
    /\ mainPc' = IF joined + 1 < Len(wpc) THEN "join" ELSE "reset"
    /\ UNCHANGED <<cfg, gShuttingDown, readerVars, queueVars, workerVars, gSynth,
                   cerr, exitCode, sinkVars, histVars>>

\* gSynth.reset(); return 0;
ResetSynth ==
    /\ mainPc = "reset"
    /\ gSynth' = [gSynth EXCEPT !.alive = FALSE]
    /\ exitCode' = 0
    /\ mainPc' = "done"
    /\ UNCHANGED <<cfg, joined, gShuttingDown, readerVars, queueVars, workerVars,
                   cerr, sinkVars, histVars>>

\* ------------------------------------------------------ worker: the queue
\* the predicate of qCv.wait(lk, pred)
WaitPredicate == gShuttingDown \/ q # <<>>

\* item = q.front()
Back(queue) == queue[Len(queue)]
Front(queue) == Head(queue)

\* q.pop() after item = q.front()
PopKeepsFront(queue) == queue
Pop(queue) == Tail(queue)

\* unique_lock lk(qMutex); qCv.wait(lk, pred) finds the predicate false:
\* the thread is about to block, and still holds the mutex
WorkerLockPredFalse(w) ==
    /\ w \in Workers
    /\ \/ wpc[w] = "lock"
       \/ wpc[w] = "wait" /\ w \notin qCv
    /\ qMutex = 0
    /\ ~WaitPredicate
    /\ qMutex' = w
    /\ wpc' = [wpc EXCEPT ![w] = "wait_enter"]
    /\ UNCHANGED <<cfg, mainPc, joined, gShuttingDown, readerVars, q, qCv, item, dst, todo,
                   gSynth, cerr, exitCode, sinkVars, histVars>>

\* the wait releases the mutex and blocks the thread, in one step
WorkerBlock(w) ==
    /\ w \in Workers
    /\ wpc[w] = "wait_enter"
    /\ qMutex' = 0
    /\ qCv' = qCv \cup {w}
    /\ wpc' = [wpc EXCEPT ![w] = "wait"]
    /\ UNCHANGED <<cfg, mainPc, joined, gShuttingDown, readerVars, q, item, dst, todo,
                   gSynth, cerr, exitCode, sinkVars, histVars>>

\* a condition variable may release a blocked thread without a notify
SpuriousWakeup(w) ==
    /\ w \in qCv
    /\ qCv' = qCv \ {w}
    /\ UNCHANGED <<cfg, mainPc, joined, gShuttingDown, readerVars, q, qMutex,
                   workerVars, gSynth, cerr, exitCode, sinkVars, histVars>>

\* if (gShuttingDown.load() && q.empty()) return;
ExitOnFlagAlone == gShuttingDown
ExitOnEither == gShuttingDown \/ q = <<>>
ExitCondition == gShuttingDown /\ q = <<>>

\* the critical section with the predicate true and the exit condition true
WorkerExit(w) ==
    /\ w \in Workers
    /\ \/ wpc[w] = "lock"
       \/ wpc[w] = "wait" /\ w \notin qCv
    /\ qMutex = 0
    /\ WaitPredicate
    /\ ExitCondition
    /\ wpc' = [wpc EXCEPT ![w] = "exited"]
    /\ UNCHANGED <<cfg, mainPc, joined, gShuttingDown, readerVars, queueVars, item,
                   dst, todo, gSynth, cerr, exitCode, sinkVars, histVars>>

\* the critical section with the predicate true and the queue not empty:
\* item = q.front(); q.pop(); and the lock is released at the closing brace.
\* (if (q.empty()) continue; cannot be taken: the predicate held and the
\* flag never goes back to false)
WorkerDequeue(w) ==
    /\ w \in Workers
    /\ \/ wpc[w] = "lock"
       \/ wpc[w] = "wait" /\ w \notin qCv
    /\ qMutex = 0
    /\ WaitPredicate
    /\ ~ExitCondition
    /\ q # <<>>
    /\ item' = [item EXCEPT ![w] = Front(q)]
    /\ q' = Pop(q)
    /\ dequeued' = Append(dequeued, Front(q).req.id)
    /\ wpc' = [wpc EXCEPT ![w] = "synth"]
    /\ UNCHANGED <<cfg, mainPc, joined, gShuttingDown, readerVars, qMutex, qCv, dst, todo,
                   gSynth, cerr, exitCode, sinkVars, pushed, results, sigAt>>

\* ------------------------------------------------------ synthesis engine
\* what a call of piper::textToAudio does for a text: it produces the chunks
\* (sequences of 16-bit samples) in order and then returns, or throws after
\* producing them
Engine(text) ==
    IF text = "Hi" THEN [chunks |-> << <<Int16Max>>, <<Int16Min, -3>> >>, throws |-> FALSE]
    ELSE IF text \in {"", SilentText} THEN [chunks |-> <<>>, throws |-> FALSE]
    ELSE IF text = PauseText
    THEN [chunks |-> << <<1>>, <<>>, <<6, -7>> >>, throws |-> FALSE]
    ELSE [chunks |-> << <<5, 9>> >>, throws |-> TRUE]

\* the samples of all chunks, in order: what synthesizePcm returns
FlattenKeepsLast(chunks) == IF chunks = <<>> THEN <<>> ELSE chunks[Len(chunks)]
RECURSIVE Flatten(_)
Flatten(chunks) == IF chunks = <<>> THEN <<>> ELSE Head(chunks) \o Flatten(Tail(chunks))

\* one write to a sink: the request, what the bytes are, how many, at what
\* rate, and the samples they carry (for a frame header: the length it states)
Write(id, kind, n, sr, data) == [id |-> id, kind |-> kind, n |-> n, sr |-> sr, data |-> data]

\* toLittleEndian4(bytes) and the payload, as two writeAll calls; writing zero
\* payload bytes adds nothing to the sink
Frame(id, kind, bytes, sr, data) ==
    IF bytes = 0
    THEN << Write(id, "hdr", 0, sr, <<0>>) >>
    ELSE << Write(id, "hdr", bytes, sr, <<bytes>>), Write(id, kind, bytes, sr, data) >>

\* soxrResample: the output buffer holds input.size() * out_sr / orig_sr samples
ResampleLen(n, orig_sr, out_sr) == (n * out_sr) \div orig_sr

\* the samples soxr_process puts into the output buffer
SoxrProcess(input, orig_sr, out_sr, olen) ==
    [i \in 1..olen |-> input[((i - 1) * orig_sr) \div out_sr + 1]]

\* ParoliSynthesizer::resample
Resample(input, orig_sr, out_sr) ==
    SoxrProcess(input, orig_sr, out_sr, ResampleLen(Len(input), orig_sr, out_sr))

\* const int outSr = req.sampleRate.value_or(req.format == "opus" ? 24000 : nativeSr)
OutSrFixedDefault(r, nativeSr) ==
    IF r.sampleRate # <<>> THEN r.sampleRate[1] ELSE OpusDefaultSr
OutSr(r, nativeSr) ==
    IF r.sampleRate # <<>> THEN r.sampleRate[1]
    ELSE IF r.format = "opus" THEN OpusDefaultSr ELSE nativeSr

\* samples of a chunk after the optional resample of processChunk
ChunkPcm(r, chunk, nativeSr) ==
    IF OutSr(r, nativeSr) # nativeSr
    THEN Resample(chunk, nativeSr, OutSr(r, nativeSr))
    ELSE chunk

\* synthesizeStreamPcm hands a chunk to onChunk only if (!chunk.empty())
HandsOver(chunk) == chunk # <<>>

\* the writes the streaming callbacks make for the chunks the engine produced
RECURSIVE StreamWrites(_, _, _)
StreamWrites(r, chunks, nativeSr) ==
    IF chunks = <<>> THEN <<>>
    ELSE LET c == Head(chunks)
             pcm == ChunkPcm(r, c, nativeSr)
             rest == StreamWrites(r, Tail(chunks), nativeSr)
         IN IF ~HandsOver(c) THEN rest
            ELSE IF r.format = "pcm"
                 THEN Frame(r.id, "pcm", 2 * Len(c), nativeSr, c) \o rest
            ELSE IF r.format = "wav"
                 THEN Frame(r.id, "pcm", 2 * Len(pcm), OutSr(r, nativeSr), pcm) \o rest
            ELSE IF pcm = <<>> THEN rest
                 ELSE Frame(r.id, "ogg", Len(pcm), OutSr(r, nativeSr), pcm) \o rest

\* the single write of a request with streaming disabled
WholeWrites(r, chunks, nativeSr) ==
    LET audio == Flatten(chunks) IN
    IF r.format = "pcm"
    THEN IF audio = <<>> THEN <<>>
         ELSE << Write(r.id, "pcm", 2 * Len(audio), nativeSr, audio) >>
    ELSE IF r.format = "wav"
    THEN << Write(r.id, "wav", 44 + 2 * Len(audio), nativeSr, audio) >>
    ELSE LET pcm == IF OutSr(r, nativeSr) # nativeSr
                    THEN Resample(audio, nativeSr, OutSr(r, nativeSr))
                    ELSE audio
         IN << Write(r.id, "ogg", 1 + Len(pcm), OutSr(r, nativeSr), pcm) >>

\* everything synthesizeOne writes after the sink is chosen, for one outcome
\* of the engine: a throw in whole-buffer mode comes before the only write, a
\* throw in streaming mode comes after the frames of the chunks produced
PipelineWrites(c, r, eng, nativeSr) ==
    IF c.stream
    THEN StreamWrites(r, eng.chunks, nativeSr)
         \o (IF r.format = "opus" /\ ~eng.throws
             THEN Frame(r.id, "ogg", 1, OutSr(r, nativeSr), <<>>)
             ELSE <<>>)
    ELSE IF eng.throws THEN <<>> ELSE WholeWrites(r, eng.chunks, nativeSr)

\* ------------------------------------------------------ worker: pipeline
SupportedAny(format) == TRUE
Supported(format) == format \in {"opus", "wav", "pcm"}

\* synthesizePcm: piper::textToAudio is called once, and a second time when
\* the first call left the buffer empty
SynthesizePcmCalls(eng) ==
    IF eng.throws THEN 1
    ELSE IF Flatten(eng.chunks) = <<>> THEN 2
    ELSE 1

\* the calls of the engine one run of the writing branches makes
EngineCalls(c, r, eng) ==
    IF c.stream THEN 1
    ELSE IF r.format = "wav" THEN 1
    ELSE SynthesizePcmCalls(eng)

\* the StreamingOggOpusEncoder of a request: whether one was made, the pcm
\* buffers given to encode() in order, and the number of calls of finish()
NoEncoder == [created |-> FALSE, fed |-> <<>>, finished |-> 0]

RECURSIVE EncoderInput(_, _, _)
EncoderInput(r, chunks, nativeSr) ==
    IF chunks = <<>> THEN <<>>
    ELSE IF ~HandsOver(Head(chunks)) THEN EncoderInput(r, Tail(chunks), nativeSr)
    ELSE <<ChunkPcm(r, Head(chunks), nativeSr)>> \o EncoderInput(r, Tail(chunks), nativeSr)

OpusEncoderUse(c, r, eng, nativeSr) ==
    IF c.stream /\ r.format = "opus"
    THEN [created |-> TRUE,
          fed |-> EncoderInput(r, eng.chunks, nativeSr),
          finished |-> IF eng.throws THEN 0 ELSE 1]
    ELSE NoEncoder

\* what a run of synthesizeOne did besides writing: engine calls, encoder
NoRun == [calls |-> 0, enc |-> NoEncoder]
PipelineRun(c, r, eng, nativeSr) ==
    [calls |-> EngineCalls(c, r, eng), enc |-> OpusEncoderUse(c, r, eng, nativeSr)]

\* the record kept of one run of synthesizeOne: what it returned and why
Outcome(w, ret, cause, playable, run) ==
    [id |-> item[w].req.id, ret |-> ret, cause |-> cause, playable |-> playable,
     run |-> run]

\* catch (const exception &e) { printError(e.what()); return false; }
\* and the worker is back at the top of its loop
CatchAndReturn(w, msg, cause, run) ==
    /\ cerr' = Append(cerr, ErrorLine(msg))
    /\ results' = results \cup {Outcome(w, FALSE, cause, FALSE, run)}
    /\ wpc' = [wpc EXCEPT ![w] = "lock"]

\* make_unique<ofstream>(path, ios::binary): the file is emptied
OpenAppends(file) == file
OpenTruncates(file) == <<>>

\* synthesizeOne up to the choice of the sink: the format check, and the
\* open (which truncates) of the output file when one is configured
SynthBegin(w) ==
    /\ w \in Workers
    /\ wpc[w] = "synth"
    /\ LET r == item[w].req IN
       IF ~Supported(r.format)
       THEN /\ CatchAndReturn(w, "Unsupported format (opus|wav|pcm)", "format", NoRun)
            /\ UNCHANGED <<dst, outFile>>
       ELSE IF cfg.outputFile
       THEN \E opened \in BOOLEAN :
              IF opened
              THEN /\ outFile' = OpenTruncates(outFile)
                   /\ dst' = [dst EXCEPT ![w] = "file"]
                   /\ wpc' = [wpc EXCEPT ![w] = "body"]
                   /\ UNCHANGED <<cerr, results>>
              ELSE /\ CatchAndReturn(w, "Failed to open output file", "open", NoRun)
                   /\ UNCHANGED <<dst, outFile>>
       ELSE /\ dst' = [dst EXCEPT ![w] = "cout"]
            /\ wpc' = [wpc EXCEPT ![w] = "body"]
            /\ UNCHANGED <<cerr, results, outFile>>
    /\ UNCHANGED <<cfg, mainPc, joined, gShuttingDown, readerVars, queueVars, item,
                   todo, gSynth, exitCode, cout, played, pushed, dequeued, sigAt>>

\* static_cast<int32_t>(x) of a float x = n / VolumeUnit: toward zero
TruncToInt32(n) == IF n >= 0 THEN n \div VolumeUnit ELSE -((-n) \div VolumeUnit)

\* std::clamp(scaled, int16 min, int16 max)
ClampInt16(x) == IF x < Int16Min THEN Int16Min ELSE IF x > Int16Max THEN Int16Max ELSE x

\* int32_t scaled = static_cast<int32_t>(sample * volume_), clamped
ScaleSampleIntVolume(sample, v) == ClampInt16(sample * (v \div VolumeUnit))
ScaleSample(sample, v) == ClampInt16(TruncToInt32(sample * v))

\* if (volume_ != 1.0f) for (auto& sample : audio) ...
ApplyVolume(audio, v) ==
    IF v # VolumeUnit THEN [i \in DOMAIN audio |-> ScaleSample(audio[i], v)] ELSE audio

\* bool isModelLoaded() const { return initialized_ && lastError_.empty(); }
IsModelLoadedIgnoringError(s) == s.initialized_
IsModelLoaded(s) == s.initialized_ /\ s.lastError_ = ""

\* ParoliSynthesizer::speak for one outcome of the engine and of the audio
\* device: the value returned and the lastError_ it leaves
Speak(s, eng, deviceOk) ==
    IF ~IsModelLoaded(s) THEN [ret |-> FALSE, lastError_ |-> s.lastError_, plays |-> FALSE]
    ELSE IF eng.throws THEN [ret |-> FALSE, lastError_ |-> "synthesis failed", plays |-> FALSE]
    ELSE IF Flatten(eng.chunks) = <<>>
    THEN [ret |-> FALSE, lastError_ |-> s.lastError_, plays |-> FALSE]
    ELSE IF ~deviceOk
    THEN [ret |-> FALSE, lastError_ |-> "Cannot open audio device", plays |-> FALSE]
    ELSE [ret |-> TRUE, lastError_ |-> "", plays |-> TRUE]

\* the pcm branch with --play: gSynth->speak(req.text); a failure is written
\* to cerr as plain text and synthesizeOne still returns true
\* why a playback request was not played
SpeakCause(s, eng, deviceOk) ==
    IF Speak(s, eng, deviceOk).ret THEN "none"
    ELSE IF ~IsModelLoaded(s) THEN "speak-refused"
    ELSE IF eng.throws THEN "speak-engine"
    ELSE IF Flatten(eng.chunks) = <<>> THEN "speak-empty"
    ELSE "speak-device"

\* the engine yields audio for the text and the audio device accepts it
Playable(eng, deviceOk) == ~eng.throws /\ Flatten(eng.chunks) # <<>> /\ deviceOk

SynthPlay(w) ==
    /\ w \in Workers
    /\ wpc[w] = "body"
    /\ item[w].req.format = "pcm" /\ cfg.playAudio
    /\ \E deviceOk \in BOOLEAN :
         LET eng == Engine(item[w].req.text)
             sp == Speak(gSynth, eng, deviceOk)
         IN
         /\ gSynth' = [gSynth EXCEPT !.lastError_ = sp.lastError_]
         /\ played' = IF sp.plays
                      THEN played \cup {[id |-> item[w].req.id,
                                          audio |-> ApplyVolume(Flatten(eng.chunks),
                                                                gSynth.volume_)]}
                      ELSE played
         /\ cerr' = IF sp.ret THEN cerr
                    ELSE Append(cerr, SpeakFailureLine(sp.lastError_))
         /\ results' = results \cup
                {Outcome(w, TRUE, SpeakCause(gSynth, eng, deviceOk), Playable(eng, deviceOk),
                         [calls |-> IF IsModelLoaded(gSynth)
                                    THEN SynthesizePcmCalls(eng) ELSE 0,
                          enc |-> NoEncoder])}
    /\ wpc' = [wpc EXCEPT ![w] = "lock"]
    /\ UNCHANGED <<cfg, mainPc, joined, gShuttingDown, readerVars, queueVars, item,
                   dst, todo, exitCode, cout, outFile, pushed, dequeued, sigAt>>

\* writeAll(*dst, ...) of one write: standard output takes the bytes; the
\* file stream takes them if it is good and the write succeeds (ok), and
\* otherwise is bad from then on and takes nothing more.  writeAll does not
\* look at the state of the stream, and nothing is raised
WriteAll(w, wr, ok) ==
    /\ dst[w] # "file" => ok
    /\ cout' = IF dst[w] = "cout" THEN Append(cout, wr) ELSE cout
    /\ outFile' = IF dst[w] = "file" /\ ok THEN Append(outFile, wr) ELSE outFile
    /\ dst' = IF dst[w] = "file" /\ ~ok THEN [dst EXCEPT ![w] = "bad"] ELSE dst

\* the end of synthesizeOne after its last write: return true, or the
\* exception of the engine is caught
PipelineReturn(w) ==
    LET r == item[w].req
        eng == Engine(r.text)
        run == PipelineRun(cfg, r, eng, gSynth.sampleRate)
    IN
    /\ todo' = [todo EXCEPT ![w] = <<>>]
    /\ IF eng.throws
       THEN CatchAndReturn(w, "synthesis failed", "engine", run)
       ELSE /\ results' = results \cup
                 {Outcome(w, TRUE, IF dst'[w] = "bad" THEN "sink-write" ELSE "none",
                          FALSE, run)}
            /\ wpc' = [wpc EXCEPT ![w] = "lock"]
            /\ UNCHANGED cerr

\* every other branch: the engine runs and the writes go to *dst one after
\* the other; this is the first of them, or the return when there is none
SynthWrite(w) ==
    /\ w \in Workers
    /\ wpc[w] = "body"
    /\ ~(item[w].req.format = "pcm" /\ cfg.playAudio)
    /\ LET r == item[w].req
           out == PipelineWrites(cfg, r, Engine(r.text), gSynth.sampleRate)
       IN
       IF out = <<>>
       THEN /\ UNCHANGED <<dst, cout, outFile>>
            /\ PipelineReturn(w)
       ELSE \E ok \in BOOLEAN :
              /\ WriteAll(w, Head(out), ok)
              /\ IF Len(out) = 1
                 THEN PipelineReturn(w)
                 ELSE /\ todo' = [todo EXCEPT ![w] = Tail(out)]
                      /\ wpc' = [wpc EXCEPT ![w] = "write"]
                      /\ UNCHANGED <<cerr, results>>
    /\ UNCHANGED <<cfg, mainPc, joined, gShuttingDown, readerVars, queueVars, item,
                   gSynth, exitCode, played, pushed, dequeued, sigAt>>

\* the next write of a pipeline that makes several, and the return after the
\* last one
WriteNext(w) ==
    /\ w \in Workers
    /\ wpc[w] = "write"
    /\ \E ok \in BOOLEAN :
         /\ WriteAll(w, Head(todo[w]), ok)
         /\ IF Len(todo[w]) = 1
            THEN PipelineReturn(w)
            ELSE /\ todo' = [todo EXCEPT ![w] = Tail(todo[w])]
                 /\ UNCHANGED <<wpc, cerr, results>>
    /\ UNCHANGED <<cfg, mainPc, joined, gShuttingDown, readerVars, queueVars, item,
                   gSynth, exitCode, played, pushed, dequeued, sigAt>>

\* ------------------------------------------------------ specification
MaxWorkers == MaxConcurrency + 1

MainStep ==
    \/ Startup \/ SpawnWorker \/ ReaderLoopCond \/ ParseStep \/ ShutdownCheck
    \/ Push \/ NotifyOne \/ StoreShutdown \/ NotifyAll \/ JoinWorker \/ ResetSynth

WorkerStep(w) ==
    \/ WorkerLockPredFalse(w) \/ WorkerBlock(w) \/ WorkerExit(w) \/ WorkerDequeue(w)
    \/ SynthBegin(w) \/ SynthPlay(w) \/ SynthWrite(w) \/ WriteNext(w)

NextFor(lines, maxLines) ==
    \/ MainStep
    \/ GetLine(lines, maxLines)
    \/ GetLineEof
    \/ Signal
    \/ \E w \in 1..MaxWorkers : WorkerStep(w)
    \/ \E w \in 1..MaxWorkers : SpuriousWakeup(w)

\* the dispatcher: reader, queue, pool of up to MaxConcurrency workers, shutdown
Init == InitFor(DispatchConfigs)
Next == NextFor(DispatchLines, MaxLines)
Spec == Init /\ [][Next]_vars

\* single requests through the pipeline, one worker, every option
PipelineInit == InitFor(PipelineConfigs)
PipelineNext == NextFor(PipelineLines, MaxLines)
PipelineSpec == PipelineInit /\ [][PipelineNext]_vars

\* the encodings of one request: every format, rate and volume
CodecInit == InitFor(CodecConfigs)
CodecNext == NextFor(CodecInput, CodecLines)
CodecSpec == CodecInit /\ [][CodecNext]_vars

\* threads that can run do run, and a read of stdin returns; a signal or a
\* spurious wakeup may never come
FairSpec ==
    /\ Spec
    /\ WF_vars(MainStep)
    /\ WF_vars(GetLine(DispatchLines, MaxLines) \/ GetLineEof)
    /\ \A w \in 1..MaxWorkers : WF_vars(WorkerStep(w))

\* ================================================================ claims
InPipeline(w) == wpc[w] \in {"synth", "body", "write"}

\* ids of the requests whose pipeline has returned
Completed == { r.id : r \in results }

\* C1: each work item pushed onto the queue is dequeued by at most one
\* worker, and every item a worker runs the pipeline on is one the reader
\* pushed.
ExactlyOnceConsumption ==
    /\ \A i, j \in DOMAIN dequeued : i # j => dequeued[i] # dequeued[j]
    /\ \A i \in DOMAIN dequeued : \E k \in DOMAIN pushed : pushed[k].id = dequeued[i]
    /\ \A w \in Workers :
         InPipeline(w) => \E k \in DOMAIN pushed : pushed[k] = item[w].req
    /\ \A w1, w2 \in Workers :
         InPipeline(w1) /\ InPipeline(w2) /\ w1 # w2
            => item[w1].req.id # item[w2].req.id

\* two workers are inside the pipeline at once, each with its own item
TwoWorkersBusy ==
    \E w1, w2 \in Workers : w1 # w2 /\ InPipeline(w1) /\ InPipeline(w2)

\* C2: the reader pushes nothing onto the queue in a state where the
\* shutdown flag is already true.
NoPushAfterShutdown ==
    [][Len(pushed') > Len(pushed) => ~gShuttingDown]_vars

\* C3: when the process has exited, every request the reader pushed has been
\* dequeued and its pipeline has returned.
NoRequestDropped ==
    (mainPc = "done" /\ exitCode = 0)
        => \A k \in DOMAIN pushed : pushed[k].id \in Completed

\* C4: the number of requests inside synthesizeOne never exceeds
\* maxConcurrency (while the queue may hold more than maxConcurrency items).
ConcurrencyBound ==
    Cardinality({ w \in Workers : InPipeline(w) }) <= cfg.maxConcurrency

\* more items are pending in the queue than there are workers
QueueDeeperThanPool == mainPc # "startup" /\ Len(q) > cfg.maxConcurrency

\* C5: once the workers are joined (and from then on: engine released,
\* process exited), every request pushed before the termination signal has
\* been dequeued and its pipeline has returned.
QueuedBeforeSignalComplete ==
    (sigAt >= 0 /\ mainPc \in {"reset", "done"})
        => \A k \in 1..sigAt : pushed[k].id \in Completed

\* the signal came with requests already pushed, and the process has exited
ExitedAfterSignalWithWork == sigAt >= 1 /\ mainPc = "done"

\* C6: once the termination signal has been delivered, every worker
\* eventually leaves its wait and exits its loop, and the process exits.
SignalLeadsToExit ==
    (sigAt >= 0) ~> (mainPc = "done" /\ \A w \in Workers : wpc[w] = "exited")

\* the steps of the shutdown sequence main has passed
ShutdownPhase ==
    IF mainPc = "store" THEN 1
    ELSE IF mainPc = "notify_all" THEN 2
    ELSE IF mainPc = "join" THEN 3
    ELSE IF mainPc = "reset" THEN 4
    ELSE IF mainPc = "done" /\ exitCode = 0 THEN 5
    ELSE 0

\* C7: main goes through the shutdown steps in the order: reading stops, the
\* flag is set, the workers are woken, every worker is joined, the engine
\* handle is released; the handle is never released while a worker has not
\* left its loop.
ShutdownOrder ==
    /\ [][ShutdownPhase' # ShutdownPhase
            => /\ ShutdownPhase' = ShutdownPhase + 1
               /\ ShutdownPhase' = 1 => mainPc \in {"loop", "getline", "check"}
               /\ ShutdownPhase' = 2 => gShuttingDown'
               /\ ShutdownPhase' = 3 => qCv' = {}
               /\ ShutdownPhase' = 4 => \A w \in Workers : wpc[w] = "exited"
               /\ ShutdownPhase' = 5 => gSynth.alive /\ ~gSynth'.alive]_vars
    /\ [](ShutdownPhase >= 1 => mainPc \notin {"getline", "parse", "check", "push", "notify"})
    /\ [](ShutdownPhase >= 2 => gShuttingDown)
    /\ []((mainPc # "startup" /\ ~gSynth.alive /\ exitCode # 1)
            => \A w \in Workers : wpc[w] = "exited")

\* the process has shut down after a worker ran a request
ShutDownAfterWork == mainPc = "done" /\ exitCode = 0 /\ Len(dequeued) >= 1 /\ ~gSynth.alive

\* the reader is about to process a line that is not empty and does not parse
AtMalformedLine ==
    mainPc = "parse" /\ line.kind # "empty" /\ ~ParseLine(line).ok

\* C8: for a malformed line (invalid JSON, or no field text) exactly one
\* {"error": ...} line is written to the error channel, no identifier is
\* consumed, nothing is enqueued, and the reader is back at the head of its
\* loop, from where it reads the next line.
MalformedLineSkipped ==
    /\ [][(AtMalformedLine /\ mainPc' # mainPc)
            => /\ Len(cerr') = Len(cerr) + 1
               /\ cerr'[Len(cerr')].json
               /\ SubSeq(cerr', 1, Len(cerr)) = cerr
               /\ nextId' = nextId
               /\ q' = q /\ pushed' = pushed
               /\ mainPc' = "loop"]_vars
    /\ [][(mainPc = "loop" /\ mainPc' # mainPc /\ ~gShuttingDown) => mainPc' = "getline"]_vars

\* a malformed first line was reported, and the valid line after it has
\* been pushed with the first identifier
ValidLineAfterMalformed ==
    /\ mainPc = "notify"
    /\ linesRead = 2
    /\ Len(pushed) = 1 /\ pushed[1].id = 0
    /\ \E i \in DOMAIN cerr : cerr[i].json

\* C9: when a request's pipeline fails (unsupported format, engine failure,
\* sink failure), exactly one structured error is reported, and the worker
\* that ran it is back at the top of its loop, at the queue wait.
PipelineFailureContained ==
    [][\A r \in results' \ results :
         r.cause # "none"
            => /\ Len(cerr') = Len(cerr) + 1
               /\ cerr'[Len(cerr')].json
               /\ \A w \in Workers :
                    (InPipeline(w) /\ item[w].req.id = r.id) => wpc'[w] = "lock"]_vars

\* C10: a playback request for which the engine yields audio and the audio
\* device is available is played, whatever happened to the requests before it.
LaterPlaybackUnaffected ==
    \A r \in results : r.playable => \E p \in played : p.id = r.id

\* C11: every line on the error channel is one complete JSON line
\* {"error": "<message>"}: no failure, the failure of a direct playback
\* included, puts anything else there.
ErrorChannelJsonOnly ==
    \A i \in DOMAIN cerr : cerr[i].json

\* the request the reader pushed with identifier id
RequestOf(id) == (CHOOSE k \in DOMAIN pushed : pushed[k].id = id)

\* the writes request id made to standard output, in order
RECURSIVE WritesOf(_, _)
WritesOf(out, id) ==
    IF out = <<>> THEN <<>>
    ELSE IF Head(out).id = id THEN <<Head(out)>> \o WritesOf(Tail(out), id)
    ELSE WritesOf(Tail(out), id)

\* C12: in streaming mode the bytes a request writes are a sequence of
\* frames: a header stating a length L > 0, followed by a payload of exactly
\* L bytes; nothing is written for a chunk that comes to zero payload bytes.
StreamFramesNonEmpty ==
    cfg.stream =>
        \A r \in results :
            LET ws == WritesOf(cout, r.id) IN
            \A i \in DOMAIN ws :
                IF ws[i].kind = "hdr"
                THEN /\ ws[i].n > 0
                     /\ i < Len(ws)
                     /\ ws[i + 1].kind # "hdr"
                     /\ ws[i + 1].n = ws[i].n
                ELSE /\ i > 1
                     /\ ws[i - 1].kind = "hdr"

\* the effective sample rate of a wav or opus request: its sampleRate if
\* given, else 24000 for opus and the engine's native rate for wav
EffectiveRate(r) ==
    IF r.sampleRate # <<>> THEN r.sampleRate[1]
    ELSE IF r.format = "opus" THEN 24000 ELSE gSynth.sampleRate

\* C13: with streaming disabled, the output of a wav or opus request is
\* encoded at the effective sample rate of the request.
WholeOutputAtEffectiveRate ==
    ~cfg.stream =>
        \A i \in DOMAIN cout :
            cout[i].kind \in {"wav", "ogg"}
                => cout[i].sr = EffectiveRate(pushed[RequestOf(cout[i].id)])

\* the requests whose pipeline wrote its output (no direct playback) and returned
Written ==
    { r \in results :
        /\ r.cause \in {"none", "engine"}
        /\ ~(cfg.playAudio /\ pushed[RequestOf(r.id)].format = "pcm") }

\* the output of request id is what the same request without sampleRate yields
SameAsWithoutRate(id) ==
    LET rq == pushed[RequestOf(id)] IN
    WritesOf(cout, id)
        = PipelineWrites(cfg, [rq EXCEPT !.sampleRate = <<>>], Engine(rq.text),
                         gSynth.sampleRate)

\* C14 (as stated): for every format, a request whose sampleRate equals the
\* engine's native rate yields the output of the same request with
\* sampleRate omitted.
NativeRateSameAsOmitted ==
    \A r \in Written :
        pushed[RequestOf(r.id)].sampleRate = <<gSynth.sampleRate>>
            => SameAsWithoutRate(r.id)

\* C14 (amended): for every pcm and wav request, and for an opus request when
\* the native rate is the opus default 24000, a request whose sampleRate
\* equals the engine's native rate yields the output of the same request
\* with sampleRate omitted.
NativeRateSameAsOmittedPcmWav ==
    \A r \in Written :
        /\ pushed[RequestOf(r.id)].sampleRate = <<gSynth.sampleRate>>
        /\ \/ pushed[RequestOf(r.id)].format \in {"pcm", "wav"}
           \/ gSynth.sampleRate = 24000
        => SameAsWithoutRate(r.id)

\* a streamed wav request that names the native rate has completed
StreamedWavAtNativeRate ==
    \E r \in Written :
        /\ cfg.stream
        /\ pushed[RequestOf(r.id)].format = "wav"
        /\ pushed[RequestOf(r.id)].sampleRate = <<gSynth.sampleRate>>
        /\ Len(WritesOf(cout, r.id)) >= 4

\* the payloads of a sequence of writes, frame headers left out, concatenated
RECURSIVE Payload(_)
Payload(ws) ==
    IF ws = <<>> THEN <<>>
    ELSE IF Head(ws).kind = "hdr" THEN Payload(Tail(ws))
    ELSE Head(ws).data \o Payload(Tail(ws))

VolumeScaling ==
    \A p \in played :
        LET src == Flatten(Engine(pushed[RequestOf(p.id)].text).chunks)
            v == cfg.volume
        IN
        /\ 0 <= v /\ v <= VolumeUnit
        /\ Len(p.audio) = Len(src)
        /\ \A i \in DOMAIN src :
             /\ p.audio[i] >= -32768 /\ p.audio[i] <= 32767
             /\ VolumeUnit * p.audio[i] - src[i] * v < VolumeUnit
             /\ src[i] * v - VolumeUnit * p.audio[i] < VolumeUnit
             /\ (src[i] >= 0) => (p.audio[i] >= 0)
             /\ (src[i] <= 0) => (p.audio[i] <= 0)
             /\ v = VolumeUnit => p.audio[i] = src[i]

\* the extreme samples have been played at volume 0.5
ExtremesPlayedAtHalfVolume ==
    \E p \in played :
        /\ 2 * cfg.volume = VolumeUnit
        /\ \E i, j \in DOMAIN p.audio : p.audio[i] = -16384 /\ p.audio[j] = 16383

\* C17: a startup error is fatal before the worker pool starts: when main
\* returns 1 the error channel holds exactly one error line, no worker was
\* created and no line was read; a volume outside [0.0, 1.0] always ends
\* this way; and a process that got past startup exits with code 0.
StartupFailureFatal ==
    /\ exitCode = 1
         => /\ mainPc = "done"
            /\ Len(cerr) = 1 /\ cerr[1].json
            /\ wpc = <<>> /\ linesRead = 0 /\ pushed = <<>>
            /\ ~gSynth.alive
    /\ (mainPc # "startup" /\ (cfg.volume < 0 \/ cfg.volume > VolumeUnit))
         => exitCode = 1
    /\ (mainPc = "done" /\ gSynth.initialized_) => exitCode = 0

\* main has returned 1 for a volume above 1.0
StartupRejectedVolume == exitCode = 1 /\ cfg.volume > VolumeUnit

\* C18: the identifiers of the requests pushed are strictly increasing in
\* the order the lines were read (so no two are equal), each is the value the
\* counter had, and the counter moves by one, only for a line that is not
\* empty and parses.
RequestIdsIncreasing ==
    /\ [](\A i, j \in DOMAIN pushed : i < j => pushed[i].id < pushed[j].id)
    /\ [][nextId' # nextId
            => /\ nextId' = nextId + 1
               /\ mainPc = "parse" /\ line.kind = "object" /\ line.hasText
               /\ req'.id = nextId]_vars
    /\ [][pushed' # pushed => pushed' = Append(pushed, req)]_vars

\* two requests have been pushed and took the first two identifiers
TwoRequestsPushed == Len(pushed) = 2 /\ pushed[2].id = 1 /\ nextId = 2

\* C19: the order in which work items are dequeued, over all workers, is
\* the order in which the reader pushed them.
DequeueFifo ==
    /\ Len(dequeued) <= Len(pushed)
    /\ \A i \in DOMAIN dequeued : dequeued[i] = pushed[i].id

\* two requests were dequeued in order and the second completed first
CompletedOutOfOrder ==
    /\ Len(dequeued) >= 2
    /\ pushed[2].id \in Completed
    /\ pushed[1].id \notin Completed

\* C20: when stdin reaches end-of-stream and no signal is delivered, the
\* workers exit and are joined and the process terminates with exit code 0.
EofLeadsToExit ==
    (mainPc = "store" /\ sigAt = -1)
        ~> (sigAt >= 0 \/ (exitCode = 0 /\ \A w \in Workers : wpc[w] = "exited"))

\* C21: every request pushed onto the queue has a non-empty text, and the
\* request built from a line without a format field has format wav.
RequestDataModel ==
    /\ \A k \in DOMAIN pushed : pushed[k].text # ""
    /\ (mainPc \in {"check", "push"} /\ ~line.hasFormat) => req.format = "wav"

\* C22: a streaming opus request has one encoder, fed the chunks in the
\* order the engine produced them, and finish() is called on it exactly once
\* on every path out of the pipeline; no other request has an encoder; on
\* success the frame of finish() is the last frame of the request.
OpusEncoderFinalized ==
    \A r \in results :
        LET rq == pushed[RequestOf(r.id)]
            ws == WritesOf(cout, r.id)
        IN
        IF cfg.stream /\ rq.format = "opus"
        THEN /\ r.run.enc.created
             /\ r.run.enc.finished = 1
             /\ Len(r.run.enc.fed) <= Len(Engine(rq.text).chunks)
             /\ r.cause = "none"
                  => /\ Len(ws) >= 2
                     /\ ws[Len(ws)].kind = "ogg" /\ ws[Len(ws)].data = <<>>
        ELSE ~r.run.enc.created

\* C23: a worker leaves its loop only with the flag set and the queue empty,
\* and never with an item in hand; it takes exactly the front item; and from
\* the dequeue to the return of the pipeline it does not touch the queue and
\* keeps its item, whatever the flag becomes.
WorkerLoopProtocol ==
    [][\A w \in Workers :
         /\ (wpc[w] # "exited" /\ wpc'[w] = "exited")
              => (gShuttingDown /\ q = <<>> /\ ~InPipeline(w))
         /\ (~InPipeline(w) /\ wpc'[w] \in {"synth", "body", "write"})
              => (q # <<>> /\ item'[w] = Head(q) /\ q' = Tail(q))
         /\ InPipeline(w) => item'[w] = item[w]
         /\ (InPipeline(w) /\ wpc'[w] # wpc[w])
              => /\ wpc'[w] \in {"body", "write", "lock"}
                 /\ q' = q
                 /\ wpc'[w] = "lock" => item[w].req.id \in { r.id : r \in results' }]_vars

\* the flag is set while a worker is writing the output of its item
FlagSetWhileBusy == \E w \in Workers : wpc[w] = "write" /\ gShuttingDown

\* C24: a whole-buffer pcm request (stream off, play off) that succeeds has
\* called the engine exactly once, and has written the engine's samples in
\* order with no frame header: 2 x sampleCount bytes.
WholePcmOnce ==
    \A r \in results :
        LET rq == pushed[RequestOf(r.id)]
            ws == WritesOf(cout, r.id)
            audio == Flatten(Engine(rq.text).chunks)
        IN
        (~cfg.stream /\ ~cfg.playAudio /\ rq.format = "pcm" /\ r.cause = "none")
            => /\ r.run.calls = 1
               /\ Payload(ws) = audio
               /\ \A i \in DOMAIN ws : ws[i].kind = "pcm" /\ ws[i].n = 2 * Len(audio)

\* C25: what a request has written stays written (standard output only
\* grows, the file only grows between two opens), nothing is written for a
\* request after its pipeline returned, and a pipeline that failed while
\* writing (engine failure, sink failure) reports exactly one error.
NoRollback ==
    [][/\ Len(cout') >= Len(cout) /\ SubSeq(cout', 1, Len(cout)) = cout
       /\ \/ outFile' = <<>>
          \/ Len(outFile') >= Len(outFile) /\ SubSeq(outFile', 1, Len(outFile)) = outFile
       /\ \A r \in results :
            /\ WritesOf(cout', r.id) = WritesOf(cout, r.id)
            /\ WritesOf(outFile', r.id) = WritesOf(outFile, r.id) \/ outFile' = <<>>
       /\ \A r \in results' \ results :
            r.cause \in {"engine", "sink-write"}
                => Len(cerr') = Len(cerr) + 1 /\ cerr'[Len(cerr')].json]_vars

\* C26: with an output file and one worker, the file holds bytes of one
\* request only, the last one that opened it: it is empty right after the
\* open, and no request that opened it later has returned.
OutputFileHoldsLast ==
    (cfg.outputFile /\ cfg.maxConcurrency = 1)
        => /\ \A i, j \in DOMAIN outFile : outFile[i].id = outFile[j].id
           /\ \A w \in Workers : wpc[w] = "body" => outFile = <<>>
           /\ \A r \in results : \A i \in DOMAIN outFile :
                r.cause \notin {"format", "open"} => outFile[i].id >= r.id

\* the first request wrote the file and the file now holds the second's bytes
SecondRequestReplacedFile ==
    /\ cfg.outputFile
    /\ outFile # <<>> /\ outFile[1].id = 1
    /\ \E r \in results :
         r.id = 0 /\ r.cause = "none" /\ ~cfg.playAudio
                  /\ pushed[RequestOf(0)].text = "Hi"

\* C27: with one worker the bytes on standard output are in increasing
\* order of request id: the output of each request is contiguous.
StdoutContiguous ==
    cfg.maxConcurrency = 1
        => \A i, j \in DOMAIN cout : i < j => cout[i].id <= cout[j].id

\* two streamed requests have written their frames to standard output
TwoStreamsOnStdout ==
    /\ cfg.stream /\ Len(cout) >= 6
    /\ cout[1].id = 0 /\ cout[Len(cout)].id = 1

\* C28: the pipeline of a request whose format is not pcm, wav or opus
\* returns having changed no sink (no write, no open or truncation of the
\* output file, no playback), without any call of the engine, and with
\* exactly one error reported.
UnsupportedFormatNoEffect ==
    [][\A w \in Workers :
         (InPipeline(w) /\ item[w].req.format \notin {"pcm", "wav", "opus"})
            => /\ cout' = cout /\ outFile' = outFile /\ played' = played
               /\ wpc'[w] # wpc[w]
                    => /\ wpc'[w] = "lock"
                       /\ Len(cerr') = Len(cerr) + 1 /\ cerr'[Len(cerr')].json
                       /\ \E r \in results' \ results :
                            r.id = item[w].req.id /\ r.run.calls = 0 /\ ~r.ret]_vars

\* a request was rejected for its format and the output file still holds
\* what an earlier request wrote
RejectedWithFileIntact ==
    /\ cfg.outputFile /\ outFile # <<>>
    /\ \E r \in results : r.cause = "format" /\ r.id = 1

\* C29: the shutdown flag starts false and never goes back from true to
\* false; the reader's loop condition reads it: with the flag set the loop
\* ends, with the flag clear it goes on to read.
FlagMonotonic ==
    /\ [](mainPc = "startup" => ~gShuttingDown)
    /\ [][gShuttingDown => gShuttingDown']_vars
    /\ [][(mainPc = "loop" /\ mainPc' # mainPc)
            => (mainPc' = "store") = gShuttingDown]_vars

\* the handler set the flag and main has stored it again
FlagStoredTwice == sigAt >= 0 /\ mainPc = "notify_all" /\ gShuttingDown

====
